---- MODULE Spec2Model ----
(***************************************************************************)
(* A model of network/afnonet.py: the autoregressive driver of AFNONet and *)
(* MultiEncoderAFNONet (forward, forward_step, get_next_input), the        *)
(* feature fusion of the multi-encoder wrapper, the retained frequency     *)
(* band of AFNO2D.forward and the configuration checks of the              *)
(* constructors.  Tensors are modelled by their shape (batch, channels,    *)
(* time slices, height, width) and by a content: the identity of each time *)
(* slice for models with a time dimension, a value of a small domain for   *)
(* models without one.                                                     *)
(***************************************************************************)
EXTENDS Integers, Sequences, FiniteSets, TLC

VARIABLES
    mode,        \* which part of the program this behaviour exercises
    cfg,         \* the constructor arguments (immutable after construction)
    pc,          \* position of the running call
    step,        \* AFNONet.forward: the loop variable `step`
    inputs,      \* AFNONet.forward: the local `inputs`
    output_list, \* AFNONet.forward: the local `output_list`
    step_log,    \* history: the argument of every forward_step call so far
    result,      \* the value the call returned
    raw,         \* the argument the caller passed to forward
    ctor,        \* construction: the arguments and the outcome of __init__
    afno,        \* AFNO2D.forward: grid, retained band, output buffers
    fusion       \* MultiEncoderAFNONet.forward_step called on its own

vars == <<mode, cfg, pc, step, inputs, output_list, step_log, result, raw, ctor, afno, fusion>>

\* ------------------------------------------------------------------ bounds
MaxSteps == 3      \* autoregressive_steps ranges over 0..MaxSteps
MaxTime == 3       \* input_time_dim, output_time_dim range over 1..MaxTime
MaxVal == 1        \* tensor contents of a model without time axis: 0..MaxVal

\* None of Python
None == 0

\* ----------------------------------------------------------------- tensors
\* A tensor: ok = FALSE is a raised exception; nd is the number of axes
\* (4: b c h w, 5: b c t h w); t lists the identities of the time slices in
\* axis order; v is the content of a tensor without time axis; post lists
\* the post-processing operations applied to it, in order.
Tensor(b, c, t, h, w, nd, v) ==
    [ok |-> TRUE, b |-> b, c |-> c, t |-> t, h |-> h, w |-> w, nd |-> nd, v |-> v,
     items |-> <<>>, post |-> <<>>]

\* The outcome of an operation that raised an exception.
Raised ==
    [ok |-> FALSE, b |-> 0, c |-> 0, t |-> <<>>, h |-> 0, w |-> 0, nd |-> 0, v |-> 0,
     items |-> <<>>, post |-> <<>>]

\* A Python list of tensors (nd = -1: it has no shape).
TensorList(xs) ==
    [ok |-> TRUE, b |-> 0, c |-> 0, t |-> <<>>, h |-> 0, w |-> 0, nd |-> -1, v |-> 0,
     items |-> xs, post |-> <<>>]

IsList(x) == x.nd = -1

Last(s) == s[Len(s)]

\* Python s[-n:] for n >= 1: the last n items, all of s when it is shorter.
TailSlice(s, n) == IF n >= Len(s) THEN s ELSE SubSeq(s, Len(s) - n + 1, Len(s))

\* Python s[k:] for k >= 0: s without its first k items.
DropSlice(s, k) == IF k >= Len(s) THEN <<>> ELSE SubSeq(s, k + 1, Len(s))


\* ------------------------------------------------------------ construction
\* The keyword arguments of AFNONet.__init__ that decide shapes and checks.
\* weights stands for the parameters of the network: the map a single step
\* applies to the content of a tensor without time axis.
Args(embed_dim, num_blocks, depth, tin, tout, in_chans, out_chans, img, patch, weights) ==
    [embed_dim |-> embed_dim, num_blocks |-> num_blocks, depth |-> depth,
     input_time_dim |-> tin, output_time_dim |-> tout,
     in_chans |-> in_chans, out_chans |-> out_chans,
     img_size |-> img, patch_size |-> patch, weights |-> weights]

\* AFNO2D.__init__: the assert on hidden_size % num_blocks (a zero divisor
\* raises ZeroDivisionError, which is fatal as well).
AFNO2DInitOk(hidden_size, num_blocks) ==
    /\ num_blocks # 0
    /\ hidden_size % num_blocks = 0

\* Block.__init__ builds one AFNO2D of width dim.
BlockInitOk(dim, num_blocks) == AFNO2DInitOk(dim, num_blocks)

\* Mutant of TimeDimChecksOk: only input_time_dim is asserted.
TimeDimChecksInputOnly(embed_dim, tin, tout) ==
    /\ tin # 0
    /\ embed_dim % tin = 0

\* The two asserts under `if self.has_time_dim` of AFNONet.__init__.
TimeDimChecksOk(embed_dim, tin, tout) ==
    /\ tin # 0
    /\ embed_dim % tin = 0
    /\ tout # 0
    /\ embed_dim % tout = 0

\* self.output_time_dim = output_time_dim if output_time_dim is not None
\* else input_time_dim
OutputTimeDim(a) ==
    IF a.output_time_dim # None THEN a.output_time_dim ELSE a.input_time_dim

HasTimeDim(a) == a.input_time_dim # None

\* AFNONet.__init__: TRUE when construction returns, FALSE when it raises.
\* The blocks are built by a comprehension over range(depth).
AFNONetInitOk(a) ==
    /\ HasTimeDim(a) => TimeDimChecksOk(a.embed_dim, a.input_time_dim, OutputTimeDim(a))
    /\ \A i \in 0..(a.depth - 1) : BlockInitOk(a.embed_dim, a.num_blocks)

\* The final activations MultiEncoderAFNONet.__init__ knows.
KnownActivations == {"Tanh", "ReLU", "LeakyReLU", "ReLU6", "Sigmoid"}

\* MultiEncoderAFNONet.__init__: one EncoderAFNONet (an AFNONet) is built per
\* item of multi_params, self.encoders[0] is read, and an unknown act_final
\* raises ValueError.
MultiEncoderInitOk(multi_params, act_final) ==
    /\ \A i \in 1..Len(multi_params) : AFNONetInitOk(multi_params[i])
    /\ Len(multi_params) >= 1
    /\ act_final = "None" \/ act_final \in KnownActivations

\* self.output_patch_embed_dim
OutputPatchEmbedDim(a) ==
    IF HasTimeDim(a) THEN a.embed_dim \div OutputTimeDim(a) ELSE a.embed_dim

\* self.h, self.w (img_size is square here)
GridDim(a) == a.img_size \div a.patch_size


\* ------------------------------------------------------------- single step
\* A feature tensor (the output of forward_features): its shape as a
\* sequence of axis lengths, and its content.
Features(shape, v) == [ok |-> TRUE, shape |-> shape, v |-> v]

NoFeatures == [ok |-> FALSE, shape |-> <<>>, v |-> 0]

\* Mutant of PatchEmbedOk: the projection takes any number of channels.
PatchEmbedOkSizeOnly(a, c, h, w) ==
    /\ h = a.img_size
    /\ w = a.img_size

\* PatchEmbed.forward on a 4-axis tensor (b, c, h, w): the size assert, and
\* the convolution, which needs in_chans channels.
PatchEmbedOk(a, c, h, w) ==
    /\ h = a.img_size
    /\ w = a.img_size
    /\ c = a.in_chans

\* AFNONet.forward_features (also EncoderAFNONet.forward).
ForwardFeatures(a, x) ==
    IF ~x.ok \/ IsList(x) THEN NoFeatures
    ELSE IF HasTimeDim(a)
    THEN \* rearrange 'b c t h w -> (b t) c h w', patch_embed,
         \* rearrange '(b t) (h w) c -> b h w (c t)' with t = input_time_dim,
         \* blocks, rearrange 'b h w (c t) -> b t h w c' with t = output_time_dim
         IF /\ x.nd = 5
            /\ PatchEmbedOk(a, x.c, x.h, x.w)
            /\ (x.b * Len(x.t)) % a.input_time_dim = 0
         THEN Features(<<(x.b * Len(x.t)) \div a.input_time_dim, OutputTimeDim(a),
                         GridDim(a), GridDim(a), a.embed_dim \div OutputTimeDim(a)>>,
                       x.v)
         ELSE NoFeatures
    ELSE \* patch_embed, x.reshape(B, h, w, embed_dim), blocks
         IF x.nd = 4 /\ PatchEmbedOk(a, x.c, x.h, x.w)
         THEN Features(<<x.b, GridDim(a), GridDim(a), a.embed_dim>>, a.weights[x.v])
         ELSE NoFeatures

\* The identities of the time slices the k-th call (k = 0, 1, ...) of
\* forward_step produces: fresh ones, numbered after those of the raw input.
NewSlices(a, k, n) == [j \in 1..n |-> a.input_time_dim + k * n + j]

\* The head and the rearrange that tiles the patches back into the grid:
\* AFNONet.forward_head, and the tail of MultiEncoderAFNONet.forward_step.
\* in_features is the width the Linear head was built with.
HeadAndTile(a, in_features, feat, k) ==
    IF ~feat.ok THEN Raised
    ELSE IF Last(feat.shape) # in_features THEN Raised
    ELSE IF HasTimeDim(a)
    THEN IF Len(feat.shape) = 5 /\ feat.shape[3] = GridDim(a) /\ feat.shape[4] = GridDim(a)
         THEN Tensor(feat.shape[1], a.out_chans, NewSlices(a, k, feat.shape[2]),
                     GridDim(a) * a.patch_size, GridDim(a) * a.patch_size, 5, feat.v)
         ELSE Raised
    ELSE IF Len(feat.shape) = 4 /\ feat.shape[2] = GridDim(a) /\ feat.shape[3] = GridDim(a)
         THEN Tensor(feat.shape[1], a.out_chans, <<>>,
                     GridDim(a) * a.patch_size, GridDim(a) * a.patch_size, 4, feat.v)
         ELSE Raised

ForwardHead(a, feat, k) == HeadAndTile(a, OutputPatchEmbedDim(a), feat, k)

\* AFNONet.forward_step
ForwardStep(a, x, k) == ForwardHead(a, ForwardFeatures(a, x), k)


\* ------------------------------------------------------------------ fusion
\* In-place x_list[0] += _x: torch broadcasts _x to the shape of x_list[0]
\* and raises when that is impossible (axes are aligned from the right; an
\* axis of _x must equal the target's or be 1; _x may not have more axes).
BroadcastableTo(s, target) ==
    /\ Len(s) <= Len(target)
    /\ \A i \in 1..Len(s) :
          LET d == s[i]
              e == target[Len(target) - Len(s) + i]
          IN  d = e \/ d = 1

SumContent(feats, n) ==
    LET RECURSIVE Go(_)
        Go(i) == IF i = 0 THEN 0 ELSE (Go(i - 1) + feats[i].v) % (MaxVal + 1)
    IN  Go(n)

\* add(x_list): the loop accumulates into x_list[0] and returns it.
add(x_list) ==
    IF \A i \in 2..Len(x_list) : BroadcastableTo(x_list[i].shape, x_list[1].shape)
    THEN Features(x_list[1].shape, SumContent(x_list, Len(x_list)))
    ELSE NoFeatures

SumLast(shapes, n) ==
    LET RECURSIVE Go(_)
        Go(i) == IF i = 0 THEN 0 ELSE Go(i - 1) + Last(shapes[i])
    IN  Go(n)

AllButLast(s) == SubSeq(s, 1, Len(s) - 1)

\* torch.concat(x_list, dim=-1): every axis but the last must agree.
concat(x_list) ==
    IF \A i \in 2..Len(x_list) : AllButLast(x_list[i].shape) = AllButLast(x_list[1].shape)
    THEN Features(Append(AllButLast(x_list[1].shape),
                         SumLast([i \in 1..Len(x_list) |-> x_list[i].shape], Len(x_list))),
                  SumContent(x_list, Len(x_list)))
    ELSE NoFeatures

\* The in_features of the shared head built by MultiEncoderAFNONet.__init__.
MultiHeadWidth(encoders, action) ==
    IF action = "concat"
    THEN SumLast([i \in 1..Len(encoders) |-> <<OutputPatchEmbedDim(encoders[i])>>],
                 Len(encoders))
    ELSE OutputPatchEmbedDim(encoders[1])

\* The loop of MultiEncoderAFNONet.forward_step over enumerate(self.encoders):
\* encoder i reads input_list[i]; a missing item raises IndexError.
EncoderOutputs(encoders, input_list) ==
    [i \in 1..Len(encoders) |->
        IF i > Len(input_list) THEN NoFeatures
        ELSE ForwardFeatures(encoders[i], input_list[i])]

\* The fusion of forward_step by self.action.
Fuse(action, feats) ==
    IF \E i \in 1..Len(feats) : ~feats[i].ok THEN NoFeatures
    ELSE IF action = "add" THEN add(feats)
    ELSE concat(feats)

\* MultiEncoderAFNONet.forward_step: the wrapper's patch size, image size,
\* time dimensions and out_chans are those of the first encoder.
MultiForwardStep(encoders, action, input_list, k) ==
    HeadAndTile(encoders[1], MultiHeadWidth(encoders, action),
                Fuse(action, EncoderOutputs(encoders, input_list)), k)


\* ------------------------------------------------------ autoregressive loop
\* x[:, :, -n:] of a 5-axis tensor.
TimeTail(x, n) == [x EXCEPT !.t = TailSlice(x.t, n)]

\* x[:, :, k:] of a 5-axis tensor.
TimeFrom(x, k) == [x EXCEPT !.t = DropSlice(x.t, k)]

\* torch.cat((x, y), dim=2): the tensors must agree on every other axis.
Cat2(x, y) ==
    IF /\ x.ok /\ y.ok /\ ~IsList(x) /\ ~IsList(y)
       /\ x.nd = y.nd /\ x.nd = 5
       /\ x.b = y.b /\ x.c = y.c /\ x.h = y.h /\ x.w = y.w
    THEN [x EXCEPT !.t = x.t \o y.t]
    ELSE Raised

\* torch.cat(output_list, dim=2); an empty list raises.
CatAll(xs) ==
    LET RECURSIVE Go(_)
        Go(i) == IF i = 1 THEN xs[1] ELSE Cat2(Go(i - 1), xs[i])
    IN  IF Len(xs) = 0 THEN Raised ELSE Go(Len(xs))

\* Mutant of GetNextInput: the leading instead of the trailing slices of the
\* previous output are taken.
GetNextInputLeading(a, ins, outputs) ==
    IF ~HasTimeDim(a) THEN Last(outputs)
    ELSE IF a.input_time_dim <= OutputTimeDim(a)
    THEN [Last(outputs) EXCEPT !.t = SubSeq(@, 1, a.input_time_dim)]
    ELSE IF IsList(ins) THEN Raised
    ELSE Cat2(TimeFrom(ins, OutputTimeDim(a)), Last(outputs))

\* Mutant of GetNextInput: the whole current input is kept in front of the
\* newest output.
GetNextInputNoDrop(a, ins, outputs) ==
    IF ~HasTimeDim(a) THEN Last(outputs)
    ELSE IF a.input_time_dim <= OutputTimeDim(a)
    THEN TimeTail(Last(outputs), a.input_time_dim)
    ELSE IF IsList(ins) THEN Raised
    ELSE Cat2(ins, Last(outputs))

\* Mutant of GetNextInput: without time axis the input is fed again.
GetNextInputSame(a, ins, outputs) ==
    IF ~HasTimeDim(a) THEN ins
    ELSE IF a.input_time_dim <= OutputTimeDim(a)
    THEN TimeTail(Last(outputs), a.input_time_dim)
    ELSE IF IsList(ins) THEN Raised
    ELSE Cat2(TimeFrom(ins, OutputTimeDim(a)), Last(outputs))

\* Mutant of GetNextInput: the newest output is put in front of the kept part
\* of the current input.
GetNextInputSwapped(a, ins, outputs) ==
    IF ~HasTimeDim(a) THEN Last(outputs)
    ELSE IF a.input_time_dim <= OutputTimeDim(a)
    THEN TimeTail(Last(outputs), a.input_time_dim)
    ELSE IF IsList(ins) THEN Raised
    ELSE Cat2(Last(outputs), TimeFrom(ins, OutputTimeDim(a)))

\* get_next_input of AFNONet and of MultiEncoderAFNONet (the same code).
\* Slicing a Python list with [:, :, k:] raises TypeError.
GetNextInput(a, ins, outputs) ==
    IF ~HasTimeDim(a) THEN Last(outputs)
    ELSE IF a.input_time_dim <= OutputTimeDim(a)
    THEN TimeTail(Last(outputs), a.input_time_dim)
    ELSE IF IsList(ins) THEN Raised
    ELSE Cat2(TimeFrom(ins, OutputTimeDim(a)), Last(outputs))

\* The call `self.forward_step(...)` of the two forward methods: AFNONet
\* passes inputs, MultiEncoderAFNONet passes the one-item list [inputs].
EncoderInputList(x) == <<x>>

CallForwardStep(c, x, k) ==
    IF c.cls = "AFNONet" THEN ForwardStep(c.net, x, k)
    ELSE MultiForwardStep(c.encoders, c.action, EncoderInputList(x), k)

\* Mutant of PostProcess: the channels are selected before the crop and the
\* activation is applied first.
PostProcessReordered(c, x) ==
    LET acted == IF c.cls = "MultiEncoderAFNONet" /\ c.act_final # "None"
                 THEN [x EXCEPT !.post = Append(@, IF c.act_final = "ReLU6"
                                                  THEN "ReLU6/6" ELSE c.act_final)]
                 ELSE x
        chosen == IF c.target_variable_index # None
                  THEN [acted EXCEPT !.c = c.target_variable_index,
                                     !.post = Append(@, "select")]
                  ELSE acted
    IN  IF c.use_dilated_conv_blocks
        THEN [chosen EXCEPT !.h = c.target_size, !.w = c.target_size,
                            !.post = Append(@, "crop")]
        ELSE chosen

\* The statements of forward between the assembly and the return: the crop
\* layer, the selection of target_variable_index (given here by the number
\* of channels it lists), and in the fusion wrapper the final activation
\* (ReLU6 is divided by 6).
PostProcess(c, x) ==
    LET cropped == IF c.use_dilated_conv_blocks
                   THEN [x EXCEPT !.h = c.target_size, !.w = c.target_size,
                                  !.post = Append(@, "crop")]
                   ELSE x
        chosen == IF c.target_variable_index # None
                  THEN [cropped EXCEPT !.c = c.target_variable_index,
                                       !.post = Append(@, "select")]
                  ELSE cropped
    IN  IF c.cls = "MultiEncoderAFNONet" /\ c.act_final # "None"
        THEN [chosen EXCEPT !.post = Append(@, IF c.act_final = "ReLU6"
                                               THEN "ReLU6/6" ELSE c.act_final)]
        ELSE chosen

\* Mutant of Assemble: output_only_last is not consulted.
AssembleAlwaysCat(c, outputs) ==
    IF HasTimeDim(c.net) THEN CatAll(outputs)
    ELSE IF Len(outputs) = 0 THEN Raised
    ELSE Last(outputs)

\* The statements after the loop that assemble the outputs.  output_list[-1]
\* of an empty list raises IndexError.
Assemble(c, outputs) ==
    IF HasTimeDim(c.net) /\ ~c.output_only_last THEN CatAll(outputs)
    ELSE IF Len(outputs) = 0 THEN Raised
    ELSE Last(outputs)

\* Mutant of LoopStep: the input is not advanced, every step reads `inputs`
\* as it stands.
LoopStepStale ==
    /\ mode = "forward"
    /\ pc = "loop"
    /\ step < cfg.autoregressive_steps
    /\ LET x == CallForwardStep(cfg, inputs, step)
       IN  /\ step_log' = Append(step_log, inputs)
           /\ IF x.ok
              THEN /\ output_list' = Append(output_list, x)
                   /\ step' = step + 1
                   /\ pc' = "loop"
              ELSE /\ pc' = "error"
                   /\ UNCHANGED <<step, output_list>>
    /\ UNCHANGED <<mode, cfg, inputs, result, raw, ctor, afno, fusion>>

\* One iteration of `for step in range(self.autoregressive_steps)`.
LoopStep ==
    /\ mode = "forward"
    /\ pc = "loop"
    /\ step < cfg.autoregressive_steps
    /\ LET inp == IF step > 0 THEN GetNextInput(cfg.net, inputs, output_list) ELSE inputs
           x == CallForwardStep(cfg, inp, step)
       IN  IF ~inp.ok
           THEN /\ pc' = "error"
                /\ UNCHANGED <<step, inputs, output_list, step_log>>
           ELSE /\ inputs' = inp
                /\ step_log' = Append(step_log, inp)
                /\ IF x.ok
                   THEN /\ output_list' = Append(output_list, x)
                        /\ step' = step + 1
                        /\ pc' = "loop"
                   ELSE /\ pc' = "error"
                        /\ UNCHANGED <<step, output_list>>
    /\ UNCHANGED <<mode, cfg, result, raw, ctor, afno, fusion>>

\* The loop is exhausted: assemble the outputs, post-process and return.
Return ==
    /\ mode = "forward"
    /\ pc = "loop"
    /\ step >= cfg.autoregressive_steps
    /\ LET x == Assemble(cfg, output_list)
       IN  IF x.ok
           THEN pc' = "done" /\ result' = PostProcess(cfg, x)
           ELSE pc' = "error" /\ UNCHANGED result
    /\ UNCHANGED <<mode, cfg, step, inputs, output_list, step_log, raw, ctor, afno, fusion>>


\* --------------------------------------------------- forward: initial states
Vals == 0..MaxVal

TimeDims == {None} \cup (1..MaxTime)

\* N_in_channels and N_out_channels: equal or not
Chans == {1, 2}

\* img_size: a multiple of the patch size or not
ImgSizes == {4, 5}

PatchSizes == {2}

EmbedDims == {12}

Identity == [v \in Vals |-> v]

\* The step maps tried as network parameters: the cyclic shifts of the
\* contents (the identity among them) and the constant maps.
WeightMaps ==
    {[v \in Vals |-> (v + s) % (MaxVal + 1)] : s \in Vals}
    \cup {[v \in Vals |-> s] : s \in Vals}

\* The networks forward is run on: every successfully constructed AFNONet
\* over the bounds.  Without time axis output_time_dim is never read, and
\* with one the content map is never read: each is then fixed.
Nets ==
    {a \in {Args(e, 2, 1, tin, tout, ic, oc, img, p, w) :
                e \in EmbedDims, tin \in TimeDims, tout \in TimeDims,
                ic \in Chans, oc \in Chans,
                img \in ImgSizes, p \in PatchSizes, w \in WeightMaps} :
        /\ AFNONetInitOk(a)
        /\ a.input_time_dim = None => a.output_time_dim = None
        /\ a.input_time_dim # None => a.weights = Identity}

\* A tensor of the shape the network is configured for.
RawTensor(a, v) ==
    IF HasTimeDim(a)
    THEN Tensor(1, a.in_chans, [j \in 1..a.input_time_dim |-> j],
                a.img_size, a.img_size, 5, 0)
    ELSE Tensor(1, a.in_chans, <<>>, a.img_size, a.img_size, 4, v)

MaxEncoders == 2

\* The configurations forward is run under.  The post-processing options
\* keep their defaults (no crop, no channel selection, no final activation).
ForwardConfigs ==
    {[cls |-> "AFNONet", net |-> a, encoders |-> <<>>, action |-> "none",
      autoregressive_steps |-> n, output_only_last |-> ol,
      use_dilated_conv_blocks |-> FALSE, target_size |-> a.img_size,
      target_variable_index |-> None, act_final |-> "None"] :
        a \in Nets, n \in 0..MaxSteps, ol \in BOOLEAN}
    \cup
    {[cls |-> "MultiEncoderAFNONet", net |-> a, encoders |-> [i \in 1..ne |-> a],
      action |-> act, autoregressive_steps |-> n, output_only_last |-> ol,
      use_dilated_conv_blocks |-> FALSE, target_size |-> a.img_size,
      target_variable_index |-> None, act_final |-> "None"] :
        a \in Nets, n \in 0..MaxSteps, ol \in BOOLEAN,
        ne \in 1..MaxEncoders, act \in {"add", "concat"}}

\* What a caller passes to forward: a tensor; the fusion wrapper is
\* documented to take a list with one tensor per encoder.
RawInputs(c) ==
    LET xs == {RawTensor(c.net, v) : v \in IF HasTimeDim(c.net) THEN {0} ELSE Vals}
    IN  IF c.cls = "AFNONet" THEN xs
        ELSE xs \cup {TensorList([i \in 1..Len(c.encoders) |-> x]) : x \in xs}

Idle == [on |-> FALSE]

InitForward ==
    /\ mode = "forward"
    /\ cfg \in ForwardConfigs
    /\ raw \in RawInputs(cfg)
    /\ inputs = raw
    /\ pc = "loop"
    /\ step = 0
    /\ output_list = <<>>
    /\ step_log = <<>>
    /\ result = Raised
    /\ ctor = Idle
    /\ afno = Idle
    /\ fusion = Idle

NextForward == LoopStep \/ Return

SpecForward == InitForward /\ [][NextForward]_vars


\* ------------------------------------- forward with post-processing options
\* The configurations of forward with every combination of the
\* post-processing options: use_dilated_conv_blocks with a crop to 2 x 2,
\* target_variable_index naming one channel, and act_final of the wrapper.
\* The networks feed their outputs back (equal channel counts, img_size a
\* multiple of the patch size); the wrapper has one encoder.
PostConfigs ==
    {[cls |-> k, net |-> a,
      encoders |-> IF k = "AFNONet" THEN <<>> ELSE <<a>>,
      action |-> IF k = "AFNONet" THEN "none" ELSE "add",
      autoregressive_steps |-> n, output_only_last |-> ol,
      use_dilated_conv_blocks |-> crop, target_size |-> 2,
      target_variable_index |-> tvi, act_final |-> af] :
        k \in {"AFNONet", "MultiEncoderAFNONet"},
        a \in {b \in Nets : b.in_chans = b.out_chans /\ b.img_size % b.patch_size = 0},
        n \in 0..MaxSteps, ol \in BOOLEAN, crop \in BOOLEAN,
        tvi \in {None, 1}, af \in {"None", "ReLU6", "Tanh"}}

InitPost ==
    /\ mode = "forward"
    /\ cfg \in PostConfigs
    /\ raw \in {RawTensor(cfg.net, v) : v \in IF HasTimeDim(cfg.net) THEN {0} ELSE Vals}
    /\ inputs = raw
    /\ pc = "loop"
    /\ step = 0
    /\ output_list = <<>>
    /\ step_log = <<>>
    /\ result = Raised
    /\ ctor = Idle
    /\ afno = Idle
    /\ fusion = Idle

SpecPost == InitPost /\ [][NextForward]_vars

\* ------------------------------------------------------------------ AFNO2D
MaxGrid == 4       \* token grid: H, W range over 1..MaxGrid

Max(a, b) == IF a >= b THEN a ELSE b

Min(a, b) == IF a <= b THEN a ELSE b

\* The indices Python's slice start:stop selects on an axis of length n
\* (a negative bound counts from the end, every bound is clamped).
PySlice(start, stop, n) ==
    LET Norm(k) == IF k < 0 THEN Max(k + n, 0) ELSE Min(k, n)
    IN  {i \in 0..(n - 1) : Norm(start) <= i /\ i < Norm(stop)}

\* total_modes = H // 2 + 1
TotalModes(H) == H \div 2 + 1

\* Mutant of KeptModes: at least one mode is always kept.
KeptModesAtLeastOne(H, num, den) == Max(1, (TotalModes(H) * num) \div den)

\* kept_modes = int(total_modes * hard_thresholding_fraction), the fraction
\* given as num / den (int truncates).
KeptModes(H, num, den) == (TotalModes(H) * num) \div den

\* The modes of the rfft2 spectrum of an (H, W) grid: rows 0..H-1, columns
\* 0..W//2.
Modes(H, W) == (0..(H - 1)) \X (0..(W \div 2))

\* The rows total_modes-kept_modes : total_modes+kept_modes of the spectrum
RetainedRows(H, kept) == PySlice(TotalModes(H) - kept, TotalModes(H) + kept, H)

\* The columns :kept_modes of the spectrum
RetainedCols(W, kept) == PySlice(0, kept, W \div 2 + 1)

\* The region the four slice assignments of AFNO2D.forward write.
Retained(H, W, kept) == RetainedRows(H, kept) \X RetainedCols(W, kept)

\* Complex numbers are pairs <<real, imaginary>>; one block of size 1.
\* x * w + b as the code computes its real and imaginary parts.
CMulAdd(x, w, b) ==
    <<x[1] * w[1] - x[2] * w[2] + b[1], x[2] * w[1] + x[1] * w[2] + b[2]>>

\* F.relu on the real and the imaginary part
Relu(z) == <<Max(z[1], 0), Max(z[2], 0)>>

\* F.softshrink with lambd = sparsity_threshold, on one number
SoftShrink(v, lam) == IF v > lam THEN v - lam ELSE IF v < -lam THEN v + lam ELSE 0

Zero == <<0, 0>>

\* torch.zeros over the spectrum
ZeroBuffer(H, W) == [m \in Modes(H, W) |-> Zero]

\* The parameters (w1, b1, w2, b2) of the filter tried.
ParamSets ==
    {[w1 |-> <<1, 0>>, b1 |-> <<0, 0>>, w2 |-> <<1, 0>>, b2 |-> <<0, 0>>],
     [w1 |-> <<1, 1>>, b1 |-> <<1, 0>>, w2 |-> <<0, 1>>, b2 |-> <<2, -2>>],
     [w1 |-> <<0, 0>>, b1 |-> <<0, 0>>, w2 |-> <<0, 0>>, b2 |-> <<0, 0>>]}

\* hard_thresholding_fraction as num / den (dyadic: exact as floats)
Fractions == {<<0, 1>>, <<1, 4>>, <<1, 2>>, <<3, 4>>, <<1, 1>>}

\* AFNO2D.forward up to the allocation of the zero buffers: the spectrum of
\* the input (every mode carries the value xv), o1 and o2, total_modes and
\* kept_modes.
AFNOAllocate ==
    /\ mode = "afno"
    /\ afno.pc = "start"
    /\ afno' = [afno EXCEPT
                  !.pc = "buffers",
                  !.x = [m \in Modes(afno.H, afno.W) |-> afno.xv],
                  !.o1 = ZeroBuffer(afno.H, afno.W),
                  !.o2 = ZeroBuffer(afno.H, afno.W),
                  !.total_modes = TotalModes(afno.H),
                  !.kept_modes = KeptModes(afno.H, afno.frac[1], afno.frac[2])]
    /\ UNCHANGED <<mode, cfg, pc, step, inputs, output_list, step_log, result, raw, ctor, fusion>>

\* The four slice assignments: the two-layer block-diagonal transform on the
\* retained region, every other entry of the buffers left as allocated.
AFNOTransform ==
    /\ mode = "afno"
    /\ afno.pc = "buffers"
    /\ LET region == Retained(afno.H, afno.W, afno.kept_modes)
           o1 == [m \in Modes(afno.H, afno.W) |->
                    IF m \in region
                    THEN Relu(CMulAdd(afno.x[m], afno.params.w1, afno.params.b1))
                    ELSE afno.o1[m]]
           o2 == [m \in Modes(afno.H, afno.W) |->
                    IF m \in region
                    THEN CMulAdd(o1[m], afno.params.w2, afno.params.b2)
                    ELSE afno.o2[m]]
       IN  afno' = [afno EXCEPT !.pc = "transformed", !.o1 = o1, !.o2 = o2,
                                !.written = region]
    /\ UNCHANGED <<mode, cfg, pc, step, inputs, output_list, step_log, result, raw, ctor, fusion>>

\* softshrink, irfft2 and `return x + bias`.  irfft2 is linear: the returned
\* tensor is the input plus the inverse transform of the spectrum `corr`, and
\* it is the input itself when corr is zero everywhere.
AFNOReturn ==
    /\ mode = "afno"
    /\ afno.pc = "transformed"
    /\ LET corr == [m \in Modes(afno.H, afno.W) |->
                      <<SoftShrink(afno.o2[m][1], afno.lam),
                        SoftShrink(afno.o2[m][2], afno.lam)>>]
       IN  afno' = [afno EXCEPT !.pc = "returned", !.corr = corr,
                                !.same = (corr = ZeroBuffer(afno.H, afno.W))]
    /\ UNCHANGED <<mode, cfg, pc, step, inputs, output_list, step_log, result, raw, ctor, fusion>>

InitAFNO ==
    /\ mode = "afno"
    /\ \E H \in 1..MaxGrid, W \in 1..MaxGrid, fr \in Fractions, lam \in {0, 1},
          ps \in ParamSets, xv \in {Zero, <<1, -1>>} :
          afno = [pc |-> "start", H |-> H, W |-> W, frac |-> fr, lam |-> lam,
                  params |-> ps, xv |-> xv, x |-> <<>>, o1 |-> <<>>, o2 |-> <<>>,
                  total_modes |-> 0, kept_modes |-> 0, written |-> {},
                  corr |-> <<>>, same |-> FALSE]
    /\ cfg = Idle
    /\ raw = Raised
    /\ inputs = Raised
    /\ pc = "idle"
    /\ step = 0
    /\ output_list = <<>>
    /\ step_log = <<>>
    /\ result = Raised
    /\ ctor = Idle
    /\ fusion = Idle

NextAFNO == AFNOAllocate \/ AFNOTransform \/ AFNOReturn

SpecAFNO == InitAFNO /\ [][NextAFNO]_vars

\* ----------------------------------------- forward_step of the fusion wrapper
\* The encoders the fusion is tried on: different widths, grids and time
\* dimensions, one input and one output channel.
FusionNets ==
    {a \in {Args(e, 1, 1, tin, tout, 1, 1, img, 2, Identity) :
                e \in {1, 2, 4}, tin \in {None, 1, 2}, tout \in {None, 1, 2},
                img \in {2, 4}} :
        /\ AFNONetInitOk(a)
        /\ a.input_time_dim = None => a.output_time_dim = None}

EncoderLists == UNION {[1..n -> FusionNets] : n \in 1..MaxEncoders}

\* One call forward_step(input_list): the encoders, the fusion, the head.
FusionForwardStep ==
    /\ mode = "fusion"
    /\ fusion.pc = "call"
    /\ LET feats == EncoderOutputs(fusion.encoders, fusion.input_list)
           fused == Fuse(fusion.action, feats)
           out == MultiForwardStep(fusion.encoders, fusion.action, fusion.input_list, 0)
       IN  fusion' = [fusion EXCEPT
                        !.pc = IF out.ok THEN "returned" ELSE "raised",
                        !.feats = feats,
                        !.head_applied = fused.ok,
                        !.out = out]
    /\ UNCHANGED <<mode, cfg, pc, step, inputs, output_list, step_log, result, raw, ctor, afno>>

\* forward_step is called with one well-shaped tensor per encoder.
InitFusion ==
    /\ mode = "fusion"
    /\ \E encs \in EncoderLists, act \in {"add", "concat"} :
          fusion = [pc |-> "call", encoders |-> encs, action |-> act,
                    input_list |-> [i \in 1..Len(encs) |-> RawTensor(encs[i], 0)],
                    feats |-> <<>>, head_applied |-> FALSE, out |-> Raised]
    /\ cfg = Idle
    /\ raw = Raised
    /\ inputs = Raised
    /\ pc = "idle"
    /\ step = 0
    /\ output_list = <<>>
    /\ step_log = <<>>
    /\ result = Raised
    /\ ctor = Idle
    /\ afno = Idle

NextFusion == FusionForwardStep

SpecFusion == InitFusion /\ [][NextFusion]_vars

\* ------------------------------------------------------------ constructors
MaxEmbed == 4      \* embed_dim ranges over 1..MaxEmbed
MaxBlocks == 3     \* num_blocks ranges over 1..MaxBlocks
MaxDepth == 2      \* depth ranges over 0..MaxDepth

CtorArgs ==
    {Args(e, nb, d, tin, tout, 1, 1, 4, 2, Identity) :
        e \in 1..MaxEmbed, nb \in 1..MaxBlocks, d \in 0..MaxDepth,
        tin \in TimeDims, tout \in TimeDims}

\* AFNONet(...) or MultiEncoderAFNONet(multi_params, ...) is called.
Construct ==
    /\ mode = "ctor"
    /\ ctor.pc = "new"
    /\ LET ok == IF ctor.cls = "AFNONet"
                 THEN AFNONetInitOk(ctor.params[1])
                 ELSE MultiEncoderInitOk(ctor.params, ctor.act_final)
       IN  ctor' = [ctor EXCEPT !.pc = IF ok THEN "built" ELSE "raised"]
    /\ UNCHANGED <<mode, cfg, pc, step, inputs, output_list, step_log, result, raw, afno, fusion>>

InitCtor ==
    /\ mode = "ctor"
    /\ \/ \E a \in CtorArgs :
             ctor = [pc |-> "new", cls |-> "AFNONet", params |-> <<a>>,
                     act_final |-> "None"]
       \/ \E a \in CtorArgs, af \in {"None", "ReLU6", "Softmax"} :
             ctor = [pc |-> "new", cls |-> "MultiEncoderAFNONet", params |-> <<a>>,
                     act_final |-> af]
       \/ \E a \in CtorArgs, e2 \in 1..MaxEmbed, af \in {"None", "ReLU6", "Softmax"} :
             ctor = [pc |-> "new", cls |-> "MultiEncoderAFNONet",
                     params |-> <<a, [a EXCEPT !.embed_dim = e2]>>, act_final |-> af]
    /\ cfg = Idle
    /\ raw = Raised
    /\ inputs = Raised
    /\ pc = "idle"
    /\ step = 0
    /\ output_list = <<>>
    /\ step_log = <<>>
    /\ result = Raised
    /\ afno = Idle
    /\ fusion = Idle

NextCtor == Construct

SpecCtor == InitCtor /\ [][NextCtor]_vars

\* Every part of the program: a behaviour is one call of forward, one call of
\* the filter, one call of forward_step of the wrapper, or one construction.
Init == InitForward \/ InitAFNO \/ InitFusion \/ InitCtor

Next == NextForward \/ NextAFNO \/ NextFusion \/ NextCtor

Spec == Init /\ [][Next]_vars

\* ------------------------------------------------- claims about the driver
Forwarding == mode = "forward"

Steps == cfg.autoregressive_steps

\* The call has ended with a fatal error for one of the reasons the code has:
\* nothing to assemble, get_next_input raised, or forward_step raised.
ErrorCause ==
    \/ Steps = 0
    \/ /\ Len(step_log) = step
       /\ step > 0
       /\ ~GetNextInput(cfg.net, inputs, output_list).ok
    \/ /\ Len(step_log) = step + 1
       /\ ~CallForwardStep(cfg, Last(step_log), step).ok

TimeCase == Forwarding /\ HasTimeDim(cfg.net)

Tin == cfg.net.input_time_dim

Tout == OutputTimeDim(cfg.net)

\* The time slices the k-th step (k = 0, 1, ...) produced, when T_out slices
\* come out of every step.
StepSlices(k) == [j \in 1..Tout |-> Tin + k * Tout + j]

\* C2: after the loop the returned tensor is the concatenation along the time
\* axis of all per-step outputs in step order, of time length
\* autoregressive_steps * output_time_dim, exactly when a time dimension is
\* configured and output_only_last is false; in every other case it is the
\* output of the final step alone.
C2_Assembled ==
    (Forwarding /\ pc = "done") =>
        IF HasTimeDim(cfg.net) /\ ~cfg.output_only_last
        THEN /\ Len(result.t) = Steps * Tout
             /\ \A k \in 0..(Steps - 1) : \A j \in 1..Tout :
                   /\ result.t[k * Tout + j] = output_list[k + 1].t[j]
                   /\ result.t[k * Tout + j] = StepSlices(k)[j]
        ELSE /\ result = output_list[Steps]
             /\ HasTimeDim(cfg.net) => result.t = StepSlices(Steps - 1)

\* C2 witness: a call of several steps has returned the concatenation.
C2_Witness ==
    /\ TimeCase
    /\ pc = "done"
    /\ ~cfg.output_only_last
    /\ Steps >= 2
    /\ Len(result.t) = Steps * Tout

\* C3: with a time dimension and input_time_dim <= output_time_dim, the input
\* of every step > 0 has exactly input_time_dim time slices: the trailing
\* input_time_dim slices of the preceding step's output, in the same order.
C3_TrailingSlices ==
    (TimeCase /\ Tin <= Tout) =>
        \A k \in 2..Len(step_log) :
            /\ Len(step_log[k].t) = Tin
            /\ \A i \in 1..Tin :
                  step_log[k].t[i] = output_list[k - 1].t[Tout - Tin + i]

\* C3 witness: a step > 0 has run on fewer slices than the previous output has.
C3_Witness ==
    /\ TimeCase
    /\ Tin < Tout
    /\ Len(step_log) >= 3

\* C4: with a time dimension and input_time_dim > output_time_dim, the input
\* of every step > 0 is the current input from slice index output_time_dim
\* onward followed by the newest output, and has exactly input_time_dim slices.
C4_SlidingWindow ==
    (TimeCase /\ Tin > Tout) =>
        \A k \in 2..Len(step_log) :
            /\ Len(step_log[k].t) = Tin
            /\ \A i \in 1..(Tin - Tout) : step_log[k].t[i] = step_log[k - 1].t[Tout + i]
            /\ \A j \in 1..Tout : step_log[k].t[Tin - Tout + j] = output_list[k - 1].t[j]

\* C4 witness: the window has slid twice.
C4_Witness ==
    /\ TimeCase
    /\ Tin > Tout
    /\ Len(step_log) >= 3

\* The time slices of the original input followed by those of the outputs of
\* the first n steps, in order.
SliceHistory(n) ==
    LET RECURSIVE Go(_)
        Go(i) == IF i = 0 THEN raw.t ELSE Go(i - 1) \o output_list[i].t
    IN  Go(n)

\* The last n elements of a sequence.
Trailing(q, n) == SubSeq(q, Len(q) - n + 1, Len(q))

\* C13: with a time dimension, whichever of input_time_dim and
\* output_time_dim is larger, the input given to forward_step at every step
\* k >= 0 is exactly the last input_time_dim slices of the history made of
\* the original input's slices followed by the slices of the outputs of steps
\* 0..k-1: in chronological order, none duplicated, skipped or reordered.
C13_WindowOfHistory ==
    (TimeCase /\ ~IsList(raw)) =>
        \A k \in 1..Len(step_log) :
            step_log[k].ok =>
                /\ k - 1 <= Len(output_list)
                /\ step_log[k].t = Trailing(SliceHistory(k - 1), Tin)
                /\ \A i, j \in 1..Tin : i < j => step_log[k].t[i] < step_log[k].t[j]

\* C13 witness: a call of three steps with input_time_dim > output_time_dim
\* has returned, so the window has moved twice over inputs and outputs.
C13_Witness ==
    /\ TimeCase
    /\ ~IsList(raw)
    /\ Tin > Tout
    /\ Tout >= 1
    /\ pc = "done"
    /\ Steps = 3
    /\ Len(step_log) = 3
    /\ step_log[3].ok
    /\ step_log[3].t # step_log[2].t

\* An AFNONet called with more than one step whose step 0 returned an output.
Autoregressing ==
    /\ Forwarding
    /\ cfg.cls = "AFNONet"
    /\ ~IsList(raw)
    /\ Steps > 1
    /\ Len(output_list) >= 1

\* The outputs of the network have the shape of its inputs.
FeedsBack ==
    /\ cfg.net.out_chans = cfg.net.in_chans
    /\ cfg.net.img_size % cfg.net.patch_size = 0

\* C14 as stated: for every constructed AFNONet with more than one step and
\* an input accepted at step 0, the input of every step > 0 has the channels
\* and the grid forward_step requires and no step > 0 raises, also when
\* N_out_channels differs from N_in_channels or img_size is not a multiple of
\* patch_size.
C14_AsClaimed ==
    Autoregressing =>
        /\ pc # "error"
        /\ \A k \in 2..Len(step_log) :
              PatchEmbedOk(cfg.net, step_log[k].c, step_log[k].h, step_log[k].w)

\* C14 (amended): for a constructed AFNONet with more than one step and an
\* input accepted at step 0, the input of every step > 0 has the channels and
\* the grid forward_step requires, and no step > 0 raises, exactly when
\* N_out_channels equals N_in_channels and img_size is a multiple of
\* patch_size; otherwise step 1 raises (in get_next_input or in PatchEmbed),
\* no second output is produced and the call does not return.
C14_FeedbackShape ==
    Autoregressing =>
        IF FeedsBack
        THEN /\ pc # "error"
             /\ \A k \in 2..Len(step_log) :
                   PatchEmbedOk(cfg.net, step_log[k].c, step_log[k].h, step_log[k].w)
        ELSE /\ Len(output_list) = 1
             /\ pc \in {"loop", "error"}
             /\ \A k \in 2..Len(step_log) :
                   ~PatchEmbedOk(cfg.net, step_log[k].c, step_log[k].h, step_log[k].w)
             /\ Len(step_log) >= 2 => pc = "error"

\* C14 witness: a network whose outputs have one channel more than its
\* inputs take was given its own output at step 1 and raised.
C14_Witness ==
    /\ Autoregressing
    /\ cfg.net.out_chans # cfg.net.in_chans
    /\ cfg.net.img_size % cfg.net.patch_size = 0
    /\ Len(step_log) = 2
    /\ step_log[2].c = cfg.net.out_chans
    /\ pc = "error"

\* The content after n applications of the step map w to v.
Iterate(w, n, v) ==
    LET RECURSIVE Go(_)
        Go(i) == IF i = 0 THEN v ELSE w[Go(i - 1)]
    IN  Go(n)

NoTimeAFNONet == Forwarding /\ cfg.cls = "AFNONet" /\ ~HasTimeDim(cfg.net)

\* C5 as stated: without time dimension, the call with any number N of steps
\* and output_only_last returns what the one-step model returns on the input.
C5_AsClaimed ==
    (NoTimeAFNONet /\ pc = "done" /\ cfg.output_only_last) =>
        result = ForwardStep(cfg.net, raw, 0)

\* C5 (amended): without time dimension, the call with N >= 1 steps returns
\* forward_step applied N times in succession to the input (whatever
\* output_only_last is): the one-step output for N = 1, and for N > 1 a tensor
\* of the same shape whose content is the N-fold image of the input's.
C5_Iterated ==
    (NoTimeAFNONet /\ pc = "done") =>
        /\ Steps >= 1
        /\ result = [ForwardStep(cfg.net, raw, 0) EXCEPT
                        !.v = Iterate(cfg.net.weights, Steps, raw.v)]
        /\ Steps = 1 => result = ForwardStep(cfg.net, raw, 0)

\* C5 witness: a call of several steps returned something else than the
\* one-step output.
C5_Witness ==
    /\ NoTimeAFNONet
    /\ pc = "done"
    /\ cfg.output_only_last
    /\ Steps >= 2
    /\ result # ForwardStep(cfg.net, raw, 0)


\* The post-processing operations the configuration asks for, in the order
\* crop, channel selection, final activation (the latter in the fusion
\* wrapper only, ReLU6 divided by 6).
ExpectedPost ==
    (IF cfg.use_dilated_conv_blocks THEN <<"crop">> ELSE <<>>)
    \o (IF cfg.target_variable_index # None THEN <<"select">> ELSE <<>>)
    \o (IF cfg.cls = "MultiEncoderAFNONet" /\ cfg.act_final # "None"
        THEN <<IF cfg.act_final = "ReLU6" THEN "ReLU6/6" ELSE cfg.act_final>>
        ELSE <<>>)

\* C12: the post-processing (crop, then selection of target_variable_index,
\* then in the fusion wrapper the final activation, ReLU6 divided by 6) is
\* applied exactly once, in that order, to the assembled output after the
\* last step; no input of a step and no per-step output has been cropped,
\* channel-selected or activated.
C12_PostOnce ==
    Forwarding =>
        /\ \A k \in 1..Len(step_log) :
              /\ step_log[k].post = <<>>
              /\ step_log[k].h = cfg.net.img_size
              /\ step_log[k].c = cfg.net.in_chans
        /\ \A k \in 1..Len(output_list) :
              /\ output_list[k].post = <<>>
              /\ output_list[k].h = cfg.net.img_size
              /\ output_list[k].c = cfg.net.out_chans
        /\ pc = "done" =>
              /\ result.post = ExpectedPost
              /\ result.t = Assemble(cfg, output_list).t
              /\ result.v = Assemble(cfg, output_list).v
              /\ result.h = IF cfg.use_dilated_conv_blocks
                            THEN cfg.target_size ELSE cfg.net.img_size
              /\ result.c = IF cfg.target_variable_index # None
                            THEN cfg.target_variable_index ELSE cfg.net.out_chans

\* C12 witness: a call of several steps of the wrapper has returned a tensor
\* that was cropped, channel-selected and passed through ReLU6 / 6.
C12_Witness ==
    /\ Forwarding
    /\ pc = "done"
    /\ cfg.cls = "MultiEncoderAFNONet"
    /\ Steps >= 2
    /\ cfg.net.out_chans = 2
    /\ result.post = <<"crop", "select", "ReLU6/6">>

\* -------------------------------------------------- claims about the filter
Filtering == mode = "afno"

FullFraction == afno.frac[1] = afno.frac[2]

\* C8 as stated: with hard_thresholding_fraction = 1.0 every mode of the
\* spectrum, rows 0..H-1 and columns 0..W//2, lies in the region that receives
\* the transform, for every grid including W > H.
C8_AsClaimed ==
    (Filtering /\ afno.pc = "transformed" /\ FullFraction) =>
        /\ afno.kept_modes = afno.total_modes
        /\ afno.written = Modes(afno.H, afno.W)

\* C9: with hard_thresholding_fraction = 0, kept_modes is 0, the retained
\* region is empty for every H and W, no entry of the zero-initialised
\* buffers is written, the correction is zero and the filter returns its
\* input.
C9_ZeroFraction ==
    (Filtering /\ afno.frac[1] = 0) =>
        /\ afno.pc # "start" => afno.kept_modes = 0
        /\ afno.pc \in {"transformed", "returned"} =>
              /\ afno.written = {}
              /\ afno.o1 = ZeroBuffer(afno.H, afno.W)
              /\ afno.o2 = ZeroBuffer(afno.H, afno.W)
        /\ afno.pc = "returned" =>
              /\ afno.corr = ZeroBuffer(afno.H, afno.W)
              /\ afno.same

\* C9 witness: the filter has returned under fraction 0 with a bias b2 that
\* would survive the shrinkage had it been written.
C9_Witness ==
    /\ Filtering
    /\ afno.frac[1] = 0
    /\ afno.pc = "returned"
    /\ afno.params.b2 = <<2, -2>>
    /\ afno.lam = 1
    /\ afno.H >= 3
    /\ afno.same


\* The rows of the spectrum the transform has written.
WrittenRows == {m[1] : m \in afno.written}

\* The columns of the spectrum the transform has written.
WrittenCols == {m[2] : m \in afno.written}

\* The frequency magnitude of row r of the unshifted rfft2 output of H rows:
\* rows 0, 1, ... carry the frequencies 0, 1, ..., and rows H-1, H-2, ... the
\* frequencies -1, -2, ...
RowFrequency(r, H) == Min(r, H - r)

\* C11 as stated: for hard_thresholding_fraction < 1.0 with kept_modes >= 1
\* the retained rows form a band symmetric around the zero row index: row 0
\* is retained, row r exactly when row (H - r) mod H is, only the columns
\* [0, kept_modes) are retained, and the zeroed rows are the high-frequency
\* ones.
C11_AsClaimed ==
    (/\ Filtering
     /\ afno.pc = "transformed"
     /\ ~FullFraction
     /\ afno.kept_modes >= 1) =>
        /\ 0 \in WrittenRows
        /\ \A r \in 0..(afno.H - 1) :
              r \in WrittenRows <=> ((afno.H - r) % afno.H) \in WrittenRows
        /\ WrittenCols \subseteq 0..(afno.kept_modes - 1)
        /\ \A r \in WrittenRows : \A z \in (0..(afno.H - 1)) \ WrittenRows :
              RowFrequency(r, afno.H) <= RowFrequency(z, afno.H)

\* --------------------------------------------- claims about the fusion wrapper
\* C6 as stated: called with a list of one tensor per encoder, forward hands
\* encoder i the i-th tensor of the list in every step, and the first step
\* returns an output.
C6_AsClaimed ==
    (/\ Forwarding
     /\ cfg.cls = "MultiEncoderAFNONet"
     /\ IsList(raw)
     /\ Len(step_log) >= 1) =>
        /\ \A i \in 1..Len(cfg.encoders) :
              /\ i <= Len(EncoderInputList(step_log[1]))
              /\ EncoderInputList(step_log[1])[i] = raw.items[i]
        /\ Len(output_list) >= 1

\* C7 as stated: with action 'add', whenever the encoders' feature tensors do
\* not all have the same shape, forward_step raises before the head is
\* applied.
C7_AsClaimed ==
    (/\ mode = "fusion"
     /\ fusion.pc # "call"
     /\ fusion.action = "add"
     /\ \A i \in 1..Len(fusion.feats) : fusion.feats[i].ok
     /\ \E i \in 1..Len(fusion.feats) : fusion.feats[i].shape # fusion.feats[1].shape) =>
        /\ ~fusion.head_applied
        /\ fusion.pc = "raised"

\* ------------------------------------------------ claims about construction
Divides(d, n) == d # 0 /\ n % d = 0

Built == mode = "ctor" /\ ctor.pc = "built"

\* C10 as stated: every successfully constructed model, of any depth, has
\* embed_dim divisible by num_blocks and, with a time dimension, by
\* input_time_dim and output_time_dim.
C10_AsClaimed ==
    Built =>
        \A i \in 1..Len(ctor.params) :
            LET a == ctor.params[i]
            IN  /\ Divides(a.num_blocks, a.embed_dim)
                /\ a.input_time_dim # None =>
                      /\ Divides(a.input_time_dim, a.embed_dim)
                      /\ Divides(OutputTimeDim(a), a.embed_dim)

\* What the constructor of one AFNONet enforces.
Enforced(a) ==
    /\ a.depth >= 1 => Divides(a.num_blocks, a.embed_dim)
    /\ a.input_time_dim # None =>
          /\ Divides(a.input_time_dim, a.embed_dim)
          /\ Divides(IF a.output_time_dim # None THEN a.output_time_dim
                     ELSE a.input_time_dim, a.embed_dim)

\* C10 (amended): construction of AFNONet, and of each encoder of the fusion
\* wrapper, raises when depth >= 1 and embed_dim is not divisible by
\* num_blocks, and at any depth when a time dimension is configured and
\* embed_dim is not divisible by input_time_dim or by output_time_dim; with
\* depth = 0 no spectral block is built and num_blocks is not checked.
C10_Construction ==
    (mode = "ctor" /\ ctor.pc # "new") =>
        /\ (\E i \in 1..Len(ctor.params) : ~Enforced(ctor.params[i])) => ctor.pc = "raised"
        /\ ctor.cls = "AFNONet" => (ctor.pc = "built" <=> Enforced(ctor.params[1]))

\* C10 witness: a model of depth 0 was built although num_blocks does not
\* divide embed_dim, and its time dimensions do divide it.
C10_Witness ==
    /\ Built
    /\ ctor.params[1].depth = 0
    /\ ~Divides(ctor.params[1].num_blocks, ctor.params[1].embed_dim)
    /\ ctor.params[1].input_time_dim = 2
    /\ ctor.params[1].output_time_dim = None

====
